---- MODULE Spec2Model ----
(***************************************************************************)
(* Model of libavfilter/vf_detelecine.c: the detelecine filter.            *)
(*                                                                         *)
(* The state is the filter's private context (DetelecineContext), the      *)
(* pixel storage of its three private frames (temp, frame[0], frame[1]),   *)
(* the input and output links, and the frames the output link holds.       *)
(* The operations are the filter callbacks: init, config_input,            *)
(* config_output and filter_frame.                                         *)
(***************************************************************************)
EXTENDS Integers, Sequences, FiniteSets, TLC

VARIABLES
    pc,        \* life-cycle position of the filter instance
    s,         \* DetelecineContext (ctx->priv)
    bufs,      \* pixel storage of the buffers behind s->temp, s->frame[0], s->frame[1]
    inlink,    \* ctx->inputs[0]: h, chroma shift, plane count, frame_rate, time_base
    outlink,   \* ctx->outputs[0]: frame_rate, time_base, frame_count_in, fifo
    ninput,    \* number of filter_frame calls made so far
    live,      \* input frames (by call number) whose reference was never freed
    first_pts, \* pts of the first input frame (history)
    last,      \* what the last callback did (history)
    budget     \* how many allocation/delivery failures the environment may still inject

vars == <<pc, s, bufs, inlink, outlink, ninput, live, first_pts, last, budget>>

----------------------------------------------------------------------------
(* Bounds of the model.                                                    *)

MaxPatLen == 2
MaxDigit == 4
MaxStartFrame == 2
MaxHeight == 3
MaxCalls == 5

(* The default pattern is followed for this many periods of five frames.   *)
MaxPeriods == 2
MaxJitter == 1
MaxUntimed == 1
MaxFaults == 1

(* Program constants.                                                      *)

\* AV_NOPTS_VALUE is INT64_MIN in the program; here a value below every
\* timestamp of the model.
AV_NOPTS_VALUE == -2147483647
AVERROR_INVALIDDATA == -1094995529
ENOMEM == 12
EINVAL == 22
START_FRAME_MAX == 13

AVERROR(e) == -e

----------------------------------------------------------------------------
(* C strings: a pattern is the sequence of its character codes; the byte   *)
(* after the last character is the terminator 0.                           *)

Zero == 48
Letter == Zero + 49

CharAt(str, i) == CASE i < Len(str) -> str[i + 1]
                    [] i = Len(str) -> 0

av_isdigit(c) == c >= 48 /\ c <= 57

Chars == {Zero + d : d \in 0..MaxDigit} \cup {Letter}

Strings(n) == UNION {[1..k -> Chars] : k \in 0..n}

DefaultPattern == <<50, 51>>

Min(a, b) == IF a < b THEN a ELSE b

FFMAX(a, b) == IF a > b THEN a ELSE b

----------------------------------------------------------------------------
(* The context as av_mallocz and the option defaults leave it.             *)

Context(pattern, start_frame, first_field) ==
    [first_field  |-> first_field,
     pattern      |-> pattern,
     start_frame  |-> start_frame,
     init_len     |-> 0,
     pattern_pos  |-> 0,
     nskip_fields |-> 0,
     start_time   |-> 0,
     pts          |-> [num |-> 0, den |-> 0],
     ts_unit      |-> [num |-> 0, den |-> 0],
     occupied     |-> 0,
     nb_planes    |-> 0,
     planeheight  |-> [i \in 0..3 |-> 0]]

NoCall == [op |-> "none", ret |-> 0]

----------------------------------------------------------------------------
(* init                                                                    *)

(* The first loop of init: validates the characters and accumulates sum,   *)
(* max and the pts multiplier; stops at the first non-digit.               *)
RECURSIVE ScanPattern(_, _, _)
ScanPattern(str, i, acc) ==
    LET c == CharAt(str, i) IN
    IF c = 0 THEN [acc EXCEPT !.ok = TRUE]
    ELSE IF ~av_isdigit(c) THEN [acc EXCEPT !.ok = FALSE]
    ELSE ScanPattern(str, i + 1,
                     [acc EXCEPT !.sum = @ + (c - Zero),
                                 !.max = FFMAX(c - Zero, @),
                                 !.num = @ + (c - Zero),
                                 !.den = @ + 2])

StartFrameTooBigStrict(start_frame, sum) == start_frame > sum

StartFrameTooBig(start_frame, sum) == start_frame >= sum

RECURSIVE SeekStartStrict(_, _, _, _, _)
SeekStartStrict(str, i, nfields, pos, start_frame) ==
    LET c == CharAt(str, i) IN
    IF c = 0 THEN [pattern_pos |-> pos, init_len |-> 0]
    ELSE LET nf == nfields + (c - Zero) IN
         IF nf > 2 * start_frame
         THEN [pattern_pos |-> pos + 1, init_len |-> nf - 2 * start_frame]
         ELSE SeekStartStrict(str, i + 1, nf, pos + 1, start_frame)

(* The second loop of init: the cursor and the stray fields of a cut.      *)
RECURSIVE SeekStart(_, _, _, _, _)
SeekStart(str, i, nfields, pos, start_frame) ==
    LET c == CharAt(str, i) IN
    IF c = 0 THEN [pattern_pos |-> pos, init_len |-> 0]
    ELSE LET nf == nfields + (c - Zero) IN
         IF nf >= 2 * start_frame
         THEN [pattern_pos |-> pos + 1, init_len |-> nf - 2 * start_frame]
         ELSE SeekStart(str, i + 1, nf, pos + 1, start_frame)

(* init as a function of the context: the return value and the context.    *)
InitResult(ctx) ==
    IF Len(ctx.pattern) = 0
    THEN [ret |-> AVERROR_INVALIDDATA, s |-> ctx]
    ELSE LET scan == ScanPattern(ctx.pattern, 0,
                        [ok |-> TRUE, sum |-> 0, max |-> 0,
                         num |-> ctx.pts.num, den |-> ctx.pts.den])
             s1 == [ctx EXCEPT !.pts = [num |-> scan.num, den |-> scan.den]]
         IN  IF ~scan.ok
             THEN [ret |-> AVERROR_INVALIDDATA, s |-> s1]
             ELSE IF StartFrameTooBig(ctx.start_frame, scan.sum)
             THEN [ret |-> AVERROR_INVALIDDATA, s |-> s1]
             ELSE LET s2 == [s1 EXCEPT !.nskip_fields = 0,
                                       !.pattern_pos = 0,
                                       !.start_time = AV_NOPTS_VALUE,
                                       !.init_len = 0]
                      seek == SeekStart(ctx.pattern, 0, 0, 0, ctx.start_frame)
                  IN  IF ctx.start_frame # 0
                      THEN [ret |-> 0,
                            s |-> [s2 EXCEPT !.pattern_pos = seek.pattern_pos,
                                             !.init_len = seek.init_len]]
                      ELSE [ret |-> 0, s |-> s2]

init ==
    /\ pc = "new"
    /\ LET r == InitResult(s) IN
       /\ s' = r.s
       /\ pc' = IF r.ret = 0 THEN "inited" ELSE "init_failed"
       /\ last' = [op |-> "init", ret |-> r.ret]
    /\ UNCHANGED <<bufs, inlink, outlink, ninput, live, first_pts, budget>>

----------------------------------------------------------------------------
(* Rationals (AVRational) and rescaling.                                   *)

Abs(x) == IF x < 0 THEN -x ELSE x

RECURSIVE av_gcd(_, _)
av_gcd(a, b) == IF b = 0 THEN a ELSE av_gcd(b, a % b)

(* av_reduce with both terms within INT_MAX after the division by the gcd: *)
(* the exact fraction in lowest terms, the sign on the numerator.          *)
av_reduce(num, den) ==
    LET g == av_gcd(Abs(num), Abs(den))
        n == IF g # 0 THEN Abs(num) \div g ELSE Abs(num)
        d == IF g # 0 THEN Abs(den) \div g ELSE Abs(den)
        sign == (num < 0) # (den < 0)
    IN  [num |-> IF sign THEN -n ELSE n, den |-> d]

av_mul_q(b, c) == av_reduce(b.num * c.num, b.den * c.den)

av_inv_q(q) == [num |-> q.den, den |-> q.num]

(* av_rescale(a, b, c): a * b / c rounded to nearest, halves away from     *)
(* zero, for a >= 0, b >= 0, c > 0.                                        *)
av_rescale(a, b, c) ==
    CASE a >= 0 /\ b >= 0 /\ c > 0 -> (a * b + c \div 2) \div c

Q(n, d) == [num |-> n, den |-> d]

----------------------------------------------------------------------------
(* Pixel storage. A frame's data is, per plane, a function from the row    *)
(* number to the row's content; a row is copied whole (bytewidth is the    *)
(* plane's full stride), so a row's content is one value: the input frame  *)
(* and the row it was read from.                                           *)

Blank == <<0, 0>>

Planes(ctx) == 0..(ctx.nb_planes - 1)

Rows(ctx, p) == 0..(ctx.planeheight[p] - 1)

BlankFrame(ctx) == [p \in Planes(ctx) |-> [r \in Rows(ctx, p) |-> Blank]]

(* The pixels of input frame number f.                                     *)
InputFrame(ctx, f) == [p \in Planes(ctx) |-> [r \in Rows(ctx, p) |-> <<f, r>>]]

(* av_image_copy_plane on rows: height rows, the k-th from row             *)
(* soff + k*sstep of src to row doff + k*dstep of dst (an offset of one    *)
(* linesize is one row, a linesize doubled is a step of two rows).         *)
av_image_copy_plane(dst, doff, dstep, src, soff, sstep, height) ==
    [r \in DOMAIN dst |->
        IF \E k \in 0..(height - 1) : r = doff + k * dstep
        THEN src[soff + ((r - doff) \div dstep) * sstep]
        ELSE dst[r]]

(* How often a copy of height rows from doff in steps of dstep writes row r. *)
RowWrites(doff, dstep, height, r) ==
    Cardinality({k \in 0..(height - 1) : r = doff + k * dstep})

AV_CEIL_RSHIFT(a, b) == -((-a) \div (2 ^ b))

----------------------------------------------------------------------------
(* config_input: allocates the three private frames and records the plane  *)
(* geometry. ff_get_video_buffer fails when the environment makes it fail. *)

config_input ==
    /\ pc = "inited"
    /\ \E fail \in 0..Min(budget, 3) :
         LET s1 == [s EXCEPT
                      !.planeheight =
                          [i \in 0..3 |->
                              IF i \in {1, 2}
                              THEN AV_CEIL_RSHIFT(inlink.h, inlink.log2_chroma_h)
                              ELSE inlink.h],
                      !.nb_planes = inlink.nb_planes]
             fresh == BlankFrame(s1)
         IN  IF fail = 0
             THEN /\ bufs' = [b \in {"temp", "f0", "f1"} |-> fresh]
                  /\ s' = s1
                  /\ pc' = "linked"
                  /\ last' = [op |-> "config_input", ret |-> 0]
                  /\ budget' = budget
             ELSE \* the fail-th allocation returns NULL: temp, frame[0], frame[1]
                  /\ bufs' = [b \in {"temp", "f0", "f1"} |->
                                IF (b = "temp" /\ fail > 1) \/ (b = "f0" /\ fail > 2)
                                THEN fresh ELSE <<>>]
                  /\ s' = s
                  /\ pc' = "config_failed"
                  /\ last' = [op |-> "config_input", ret |-> AVERROR(ENOMEM)]
                  /\ budget' = budget - 1
    /\ UNCHANGED <<inlink, outlink, ninput, live, first_pts>>

----------------------------------------------------------------------------
(* config_output: rate negotiation.                                        *)

OutputRateSwapped(fps, pts) == av_mul_q(fps, pts)

OutputRate(fps, pts) == av_mul_q(fps, av_inv_q(pts))

OutputTimeBase(tb, pts) == av_mul_q(tb, pts)

TsUnit(fps, tb) == av_inv_q(av_mul_q(fps, tb))

config_output ==
    /\ pc = "linked"
    /\ LET fps0 == inlink.frame_rate IN
       IF fps0.num = 0 \/ fps0.den = 0
       THEN /\ pc' = "config_failed"
            /\ last' = [op |-> "config_output", ret |-> AVERROR(EINVAL)]
            /\ UNCHANGED <<s, outlink>>
       ELSE LET fps == OutputRate(fps0, s.pts)
                tb == OutputTimeBase(inlink.time_base, s.pts)
            IN  /\ outlink' = [outlink EXCEPT !.frame_rate = fps, !.time_base = tb]
                /\ s' = [s EXCEPT !.ts_unit = TsUnit(fps, tb)]
                /\ pc' = "ready"
                /\ last' = [op |-> "config_output", ret |-> 0]
    /\ UNCHANGED <<bufs, inlink, ninput, live, first_pts, budget>>

----------------------------------------------------------------------------
(* filter_frame: the cursor.                                               *)

(* while(!len && s->pattern[s->pattern_pos]): the next non-zero digit.     *)
RECURSIVE SeekLen(_, _, _)
SeekLen(str, pos, len) ==
    IF len = 0 /\ CharAt(str, pos) # 0
    THEN SeekLen(str, pos + 1, CharAt(str, pos) - Zero)
    ELSE [len |-> len, pos |-> pos]

WrapPosNever(str, pos) == pos

(* if (!s->pattern[s->pattern_pos]) s->pattern_pos = 0;                    *)
WrapPos(str, pos) == IF CharAt(str, pos) = 0 THEN 0 ELSE pos

(* len = s->init_len; s->init_len = 0; the search; the wrap.               *)
TakeLen(ctx) ==
    LET seek == SeekLen(ctx.pattern, ctx.pattern_pos, ctx.init_len)
    IN  [s   |-> [ctx EXCEPT !.init_len = 0,
                             !.pattern_pos = WrapPos(ctx.pattern, seek.pos)],
         len |-> seek.len]

(* The same search from len = 0, as the one-field case repeats it.         *)
NextLen(ctx) ==
    LET seek == SeekLen(ctx.pattern, ctx.pattern_pos, 0)
    IN  [s   |-> [ctx EXCEPT !.pattern_pos = WrapPos(ctx.pattern, seek.pos)],
         len |-> seek.len]

----------------------------------------------------------------------------
(* filter_frame: the plane copies.                                         *)

(* s->frame[out]: the buffer behind output slot i; the array has two slots. *)
SlotBuf(i) == CASE i = 0 -> "f0" [] i = 1 -> "f1" [] OTHER -> "outside"

OutSlotNext(out) == out + 1

OutSlot(out) == out

WriteBuf(store, b, data) ==
    IF b \in DOMAIN store THEN [store EXCEPT ![b] = data] ELSE store

(* The rows a write through slot i lands on (a slot outside the array has  *)
(* no buffer of the model behind it).                                      *)
SlotData(store, i) ==
    IF SlotBuf(i) \in DOMAIN store THEN store[SlotBuf(i)] ELSE store["f0"]

CopyOneField(ctx, dst, src) ==
    [p \in Planes(ctx) |->
        av_image_copy_plane(dst[p], 0, 2, src[p], 0, 2,
                            (ctx.planeheight[p] + 1) \div 2)]

(* for (i = 0; i < s->nb_planes; i++) av_image_copy_plane(dst, src, ...,   *)
(* s->planeheight[i]): every row of every plane.                           *)
CopyWhole(ctx, dst, src) ==
    [p \in Planes(ctx) |->
        av_image_copy_plane(dst[p], 0, 1, src[p], 0, 1, ctx.planeheight[p])]

FieldRowsHalf(height, parity) == height \div 2

(* The number of rows of one field: (planeheight - parity + 1) / 2.        *)
FieldRows(height, parity) == (height - parity + 1) \div 2

Not(b) == IF b = 0 THEN 1 ELSE 0

(* The earlier field from the new input frame, the later one from temp.    *)
WeaveFields(ctx, dst, in, temp) ==
    [p \in Planes(ctx) |->
        LET ff == ctx.first_field
            nf == Not(ctx.first_field)
            d1 == av_image_copy_plane(dst[p], ff, 2, in[p], ff, 2,
                                      FieldRows(ctx.planeheight[p], ff))
        IN  av_image_copy_plane(d1, nf, 2, temp[p], nf, 2,
                                FieldRows(ctx.planeheight[p], nf))]

(* History: how often the two copies of WeaveFields write each row.        *)
WeaveWrites(ctx) ==
    [p \in Planes(ctx) |->
        [r \in Rows(ctx, p) |->
            RowWrites(ctx.first_field, 2,
                      FieldRows(ctx.planeheight[p], ctx.first_field), r)
          + RowWrites(Not(ctx.first_field), 2,
                      FieldRows(ctx.planeheight[p], Not(ctx.first_field)), r)]]

----------------------------------------------------------------------------
(* filter_frame: the Consume path, on a working record                     *)
(*   c = [s, bufs, len, out, wr, rw, steps]                                *)
(* where wr is the set of slot indices written, rw the row writes of the   *)
(* interleaving copy and steps the blocks taken (wr, rw, steps: history).  *)

(* if (len == 1 && s->occupied) { ... }                                    *)
OneFieldFlush(c) ==
    LET slot == OutSlot(c.out)
        b1 == WriteBuf(c.bufs, SlotBuf(slot),
                       CopyWhole(c.s, SlotData(c.bufs, slot), c.bufs["temp"]))
        nl == NextLen([c.s EXCEPT !.occupied = 0])
    IN  [c EXCEPT !.s = nl.s,
                  !.bufs = b1,
                  !.len = nl.len,
                  !.out = c.out + 1,
                  !.wr = @ \cup {slot},
                  !.steps = @ \cup {"flush"}]

InterleaveLenFirst(c, in) ==
    LET slot == OutSlot(c.out)
        dst == SlotData(c.bufs, slot)
        b1 == WriteBuf(c.bufs, SlotBuf(slot),
                       WeaveFields(c.s, dst, in, c.bufs["temp"]))
        rest == IF c.len >= 3 THEN c.len - 3 ELSE 0
        rebuf == rest <= 2
        b2 == IF rebuf THEN [b1 EXCEPT !["temp"] = CopyWhole(c.s, @, in)] ELSE b1
    IN  [c EXCEPT !.s = [c.s EXCEPT !.occupied = IF rebuf THEN 1 ELSE 0],
                  !.bufs = b2,
                  !.len = rest,
                  !.out = c.out + 1,
                  !.wr = @ \cup {slot},
                  !.rw = WeaveWrites(c.s),
                  !.steps = @ \cup {"weave"}]

(* if (s->occupied) { ... }                                                *)
Interleave(c, in) ==
    LET slot == OutSlot(c.out)
        dst == SlotData(c.bufs, slot)
        b1 == WriteBuf(c.bufs, SlotBuf(slot),
                       WeaveFields(c.s, dst, in, c.bufs["temp"]))
        rebuf == c.len <= 2
        b2 == IF rebuf THEN [b1 EXCEPT !["temp"] = CopyWhole(c.s, @, in)] ELSE b1
    IN  [c EXCEPT !.s = [c.s EXCEPT !.occupied = IF rebuf THEN 1 ELSE 0],
                  !.bufs = b2,
                  !.len = IF c.len >= 3 THEN c.len - 3 ELSE 0,
                  !.out = c.out + 1,
                  !.wr = @ \cup {slot},
                  !.rw = WeaveWrites(c.s),
                  !.steps = @ \cup {"weave"}]

(* else { if (len >= 2) { ... } else if (len == 1) { ... } }               *)
AsIs(c, in) ==
    LET slot == OutSlot(c.out)
        dst == SlotData(c.bufs, slot)
        b1 == WriteBuf(c.bufs, SlotBuf(slot), CopyWhole(c.s, dst, in))
    IN  IF c.len >= 2
        THEN [c EXCEPT !.bufs = b1,
                       !.len = c.len - 2,
                       !.out = c.out + 1,
                       !.wr = @ \cup {slot},
                       !.steps = @ \cup {"asis"}]
        ELSE IF c.len = 1
        THEN [c EXCEPT !.s = [c.s EXCEPT !.occupied = 1],
                       !.bufs = [b1 EXCEPT !["temp"] = CopyWhole(c.s, @, in)],
                       !.len = c.len - 1,
                       !.out = c.out + 1,
                       !.wr = @ \cup {slot},
                       !.steps = @ \cup {"asis", "buffer"}]
        ELSE c

(* if (len == 1 && s->occupied) { len--; s->occupied = 0; }                *)
Absorb(c) ==
    IF c.len = 1 /\ c.s.occupied # 0
    THEN [c EXCEPT !.s = [c.s EXCEPT !.occupied = 0],
                   !.len = c.len - 1,
                   !.steps = @ \cup {"absorb"}]
    ELSE c

(* The body of if (s->nskip_fields == 0) after the zero-length return,     *)
(* then s->nskip_fields = len.                                             *)
Consume(ctx, store, len, in) ==
    LET c0 == [s |-> ctx, bufs |-> store, len |-> len, out |-> 0,
               wr |-> {}, rw |-> <<>>, steps |-> {}]
        c1 == IF c0.len = 1 /\ c0.s.occupied # 0 THEN OneFieldFlush(c0) ELSE c0
        c2 == IF c1.s.occupied # 0 THEN Interleave(c1, in) ELSE AsIs(c1, in)
        c3 == Absorb(c2)
    IN  [c3 EXCEPT !.s = [c3.s EXCEPT !.nskip_fields = c3.len]]

----------------------------------------------------------------------------
(* filter_frame: handing the output frames downstream.                     *)

(* av_frame_clone: a new AVFrame that references the same data buffers as  *)
(* its source (a frame of the model names the buffer that holds its data). *)
av_frame_clone(f) == f

(* s->frame[i]                                                             *)
PrivateFrame(i) == [buf |-> SlotBuf(i), pts |-> AV_NOPTS_VALUE, props |-> 0]

FramePtsNext(start_time, count, ts_unit) ==
    (IF start_time = AV_NOPTS_VALUE THEN 0 ELSE start_time)
        + av_rescale(count + 1, ts_unit.num, ts_unit.den)

(* frame->pts = start_time (0 if none) + av_rescale(frame_count_in, ts_unit) *)
FramePts(start_time, count, ts_unit) ==
    (IF start_time = AV_NOPTS_VALUE THEN 0 ELSE start_time)
        + av_rescale(count, ts_unit.num, ts_unit.den)

(* ff_filter_frame: counts the frame in on the link, queues it on the      *)
(* link's fifo and returns 0, or frees it and returns the error r < 0.     *)
(* A queued frame stays referenced downstream (on the fifo, then by the    *)
(* destination filter) for as long as the destination needs it; the fifo   *)
(* of the model keeps every frame that was queued.                         *)
ff_filter_frame(link, frame, r) ==
    [link EXCEPT !.frame_count_in = @ + 1,
                 !.fifo = IF r = 0 THEN Append(@, frame) ELSE @]

FirstError(ret, r) == IF ret < 0 THEN ret ELSE r

(* ret = ff_filter_frame(outlink, frame);                                  *)
LoopResult(ret, r) == r

(* What the environment does to the i-th output frame of a call: "ok",     *)
(* "nomem" (av_frame_clone returns NULL) or "reject" (ff_filter_frame      *)
(* fails).                                                                 *)
Faults(fate) == Cardinality({i \in DOMAIN fate : fate[i] # "ok"})

Fates(out, b) ==
    {f \in [1..2 -> {"ok", "nomem", "reject"}] :
        /\ Faults(f) <= b
        /\ \A i \in 1..2 : i > out => f[i] = "ok"
        /\ f[1] = "nomem" => f[2] = "ok"}

(* for (i = 0; i < out; ++i) { ... } from index i on. The result: the      *)
(* link, ret, whether the loop returned ENOMEM, the deliveries' results.   *)
RECURSIVE Emit(_, _, _, _, _, _, _, _)
Emit(i, c, link, in, fate, ret, deliv, clones) ==
    IF i >= c.out
    THEN [link |-> link, ret |-> ret, nomem |-> FALSE, deliv |-> deliv,
          clones |-> clones]
    ELSE IF fate[i + 1] = "nomem"
    THEN [link |-> link, ret |-> AVERROR(ENOMEM), nomem |-> TRUE,
          deliv |-> deliv, clones |-> clones + 1]
    ELSE LET f0 == av_frame_clone(PrivateFrame(i))
             f1 == [f0 EXCEPT !.props = in,
                              !.pts = FramePts(c.s.start_time,
                                               link.frame_count_in, c.s.ts_unit)]
             \* history: the emission index and the pixels as handed over
             f2 == [buf |-> f1.buf, pts |-> f1.pts, props |-> f1.props,
                    n |-> link.frame_count_in, sent |-> c.bufs[f1.buf]]
             r == IF fate[i + 1] = "reject" THEN AVERROR(ENOMEM) ELSE 0
         IN  Emit(i + 1, c, ff_filter_frame(link, f2, r), in, fate,
                  LoopResult(ret, r), Append(deliv, r), clones + 1)

----------------------------------------------------------------------------
(* filter_frame                                                            *)

SkipStoredAfterLoop(c, nomem) ==
    IF nomem THEN [c.s EXCEPT !.nskip_fields = 0] ELSE c.s

(* The context a Consume call leaves when it returns, from the output loop *)
(* with ENOMEM or after it: s->nskip_fields = len precedes the loop, and   *)
(* the loop writes nothing to the context.                                 *)
ContextAtReturn(c, nomem) == c.s

(* The timestamps input frame number k (from 0) may carry: one of a window *)
(* that lies after the window of frame k - 1, or, for the first MaxUntimed *)
(* frames, none.                                                           *)
(* The number of input frames the host sends.                              *)
CallLimit(ctx) ==
    IF ctx.pattern = DefaultPattern /\ ctx.start_frame = 0
    THEN FFMAX(MaxCalls, 5 * MaxPeriods)
    ELSE MaxCalls

PtsChoices(k) ==
    {k * (MaxJitter + 1) + j : j \in 0..MaxJitter}
        \cup (IF k < MaxUntimed THEN {AV_NOPTS_VALUE} ELSE {})

filter_frame ==
    /\ pc = "ready"
    /\ ninput < CallLimit(s)
    /\ \E pts \in PtsChoices(ninput) :
         LET in == ninput + 1
             pix == InputFrame(s, in)
             s0 == IF s.start_time = AV_NOPTS_VALUE
                   THEN [s EXCEPT !.start_time = pts] ELSE s
             hist == [op |-> "filter_frame", in |-> in,
                      entry |-> s, temp0 |-> bufs["temp"], len0 |-> 0,
                      out |-> 0, wr |-> {}, rw |-> <<>>, steps |-> {},
                      nomem |-> FALSE, deliv |-> <<>>, clones |-> 0]
         IN
         /\ ninput' = in
         /\ first_pts' = IF ninput = 0 THEN pts ELSE first_pts
         /\ UNCHANGED <<pc, inlink>>
         /\ IF s0.nskip_fields >= 2
            THEN /\ s' = [s0 EXCEPT !.nskip_fields = @ - 2]
                 /\ live' = live \cup {in}
                 /\ last' = hist @@ [path |-> "SkipMany", ret |-> 0, freed |-> FALSE]
                 /\ UNCHANGED <<bufs, outlink, budget>>
            ELSE IF s0.nskip_fields >= 1
            THEN /\ bufs' = [bufs EXCEPT !["temp"] = CopyWhole(s0, @, pix)]
                 /\ s' = [s0 EXCEPT !.occupied = 1, !.nskip_fields = @ - 1]
                 /\ live' = live \cup {in}
                 /\ last' = hist @@ [path |-> "SkipOne", ret |-> 0, freed |-> FALSE]
                 /\ UNCHANGED <<outlink, budget>>
            ELSE LET t == TakeLen(s0) IN
                 IF t.len = 0
                 THEN /\ s' = t.s
                      /\ live' = live
                      /\ last' = hist @@ [path |-> "ZeroLen", ret |-> 0, freed |-> TRUE]
                      /\ UNCHANGED <<bufs, outlink, budget>>
                 ELSE LET c == Consume(t.s, bufs, t.len, pix) IN
                      \E fate \in Fates(c.out, budget) :
                        LET e == Emit(0, c, outlink, in, fate, 0, <<>>, 0) IN
                        /\ s' = ContextAtReturn(c, e.nomem)
                        /\ bufs' = c.bufs
                        /\ outlink' = e.link
                        /\ live' = live
                        /\ budget' = budget - Faults(fate)
                        /\ last' = [hist EXCEPT !.len0 = t.len, !.out = c.out,
                                                !.wr = c.wr, !.rw = c.rw,
                                                !.steps = c.steps,
                                                !.nomem = e.nomem,
                                                !.deliv = e.deliv,
                                                !.clones = e.clones]
                                   @@ [path |-> "Consume", ret |-> e.ret,
                                       freed |-> TRUE]

----------------------------------------------------------------------------

NoBufs == [b \in {"temp", "f0", "f1"} |-> <<>>]

(* The formats the input link may have negotiated: plane count and         *)
(* vertical chroma shift (two planes, chroma at half height, as NV12).     *)
Formats == {[nb_planes |-> 2, log2_chroma_h |-> 1]}

Heights == (MaxHeight - 1)..MaxHeight

InitWith(patterns, start_frames, fields, heights, rates, bases, faults) ==
    /\ pc = "new"
    /\ \E p \in patterns, sf \in start_frames, ff \in fields :
         s = Context(p, sf, ff)
    /\ bufs = NoBufs
    /\ \E h \in heights, fmt \in Formats, fps \in rates, tb \in bases :
         inlink = [h |-> h, log2_chroma_h |-> fmt.log2_chroma_h,
                   nb_planes |-> fmt.nb_planes,
                   frame_rate |-> fps, time_base |-> tb]
    /\ outlink = [frame_rate |-> Q(0, 0),
                  time_base |-> Q(0, 0),
                  frame_count_in |-> 0,
                  fifo |-> <<>>]
    /\ ninput = 0
    /\ live = {}
    /\ first_pts = AV_NOPTS_VALUE
    /\ last = NoCall
    /\ budget = faults

StartFrames == 0..Min(MaxStartFrame, START_FRAME_MAX)

(* Every option string up to MaxPatLen characters (digits and a letter),   *)
(* every start_frame and both field orders; two frames per second on a     *)
(* time base of a third of a second (ts_unit = 3/2), or no constant rate;  *)
(* allocation and delivery never fail.                                     *)
Init == InitWith(Strings(MaxPatLen), StartFrames, {0, 1}, Heights,
                 {Q(2, 1), Q(0, 1)}, {Q(1, 3)}, 0)

Next == init \/ config_input \/ config_output \/ filter_frame

Spec == Init /\ [][Next]_vars

(* The default options and the one-digit patterns, with up to MaxFaults    *)
(* failures of ff_get_video_buffer, av_frame_clone or ff_filter_frame.     *)
FaultPatterns == {DefaultPattern} \cup {<<Zero + d>> : d \in 1..MaxDigit}

InitFaults == InitWith(FaultPatterns, {0}, {0}, {MaxHeight},
                       {Q(2, 1)}, {Q(1, 3)}, MaxFaults)

SpecFaults == InitFaults /\ [][Next]_vars

(* Every option string, with the frame rates and time bases of common      *)
(* streams (and the two malformed rates).                                  *)
Rates == {Q(24, 1), Q(25, 1), Q(30, 1), Q(2997, 100), Q(0, 1), Q(1, 0)}

TimeBases == {Q(1, 25), Q(1, 30), Q(100, 2997), Q(1, 90000)}

InitRates == InitWith(Strings(MaxPatLen), {0}, {0}, {MaxHeight},
                      Rates, TimeBases, 0)

SpecRates == InitRates /\ [][Next]_vars

(* Every option string and start_frame on one stream. The host calls       *)
(* filter_frame for every input frame it has: MoreInput is enabled exactly *)
(* when filter_frame is, and a step of Next that satisfies it is a         *)
(* filter_frame step, the only one that changes ninput.                    *)
InitLive == InitWith(Strings(MaxPatLen), StartFrames, {0}, {MaxHeight},
                     {Q(2, 1)}, {Q(1, 3)}, 0)

MoreInput == pc = "ready" /\ ninput < CallLimit(s) /\ ninput' = ninput + 1

SpecLive == InitLive /\ [][Next]_vars /\ WF_ninput(MoreInput)

----------------------------------------------------------------------------
(* Vocabulary of the properties.                                           *)

RECURSIVE DigitSum(_)
DigitSum(str) == IF str = <<>> THEN 0 ELSE (Head(str) - Zero) + DigitSum(Tail(str))

AllDigits(str) == \A i \in DOMAIN str : av_isdigit(str[i])

AllZeros(str) == Len(str) > 0 /\ \A i \in DOMAIN str : str[i] = Zero

Called == last.op = "filter_frame"

DefaultOptions ==
    s.pattern = DefaultPattern /\ s.start_frame = 0 /\ s.first_field = 0

Fifo == outlink.fifo

(* k is n * q rounded to the nearest integer.                              *)
IsRounded(k, n, q) == 2 * Abs(k * q.den - n * q.num) <= q.den

(* The input frames whose rows a frame's pixels are made of.               *)
Sources(pix) == UNION {{pix[p][r][1] : r \in DOMAIN pix[p]} : p \in DOMAIN pix}

----------------------------------------------------------------------------
(* C1: a filter_frame call produces at most two output frames, hands at    *)
(* most that many downstream, and writes only the output slots frame[0]    *)
(* and frame[1].                                                           *)
C1_AtMostTwoOutputs ==
    Called => /\ last.out \in 0..2
              /\ Len(last.deliv) <= last.out
              /\ last.wr \subseteq {0, 1}

C1_Witness ==
    Called /\ last.out = 2 /\ last.wr = {0, 1} /\ Len(last.deliv) = 2

(* C2: every filter_frame call frees its input frame before it returns,    *)
(* on every path, so no input frame stays referenced after a call.         *)
C2_InputReleased ==
    /\ Called => last.freed
    /\ live = {}

(* C3: the pixels of a frame handed downstream stay what they were when it *)
(* was handed over, whatever later calls write into frame[0], frame[1] or  *)
(* temp.                                                                   *)
C3_DeliveredPixelsStable ==
    \A i \in DOMAIN Fifo : bufs[Fifo[i].buf] = Fifo[i].sent

(* C4: when the first input frame carries a timestamp, the output frame    *)
(* with 0-based emission index n has the timestamp first_pts + round(n *   *)
(* ts_unit), and no output timestamp is below the one before it.           *)
C4_Timestamps ==
    first_pts # AV_NOPTS_VALUE =>
        \A i \in DOMAIN Fifo :
            /\ IsRounded(Fifo[i].pts - first_pts, i - 1, s.ts_unit)
            /\ i > 1 => Fifo[i].pts >= Fifo[i - 1].pts

C4_Witness ==
    /\ first_pts # AV_NOPTS_VALUE /\ first_pts # 0
    /\ Len(Fifo) >= 4
    /\ s.ts_unit.den > 1
    /\ Fifo[4].pts = first_pts + 5

(* C5 as stated: config_output sets the output frame rate to the input     *)
(* frame rate times m and the output time base to the input time base      *)
(* divided by m, m = (sum of digits) : (2 x pattern length).               *)
C5_RateTimesM ==
    (pc = "ready") =>
        LET sum == DigitSum(s.pattern)
            den == 2 * Len(s.pattern)
        IN  /\ outlink.frame_rate.num * inlink.frame_rate.den * den
                 = outlink.frame_rate.den * inlink.frame_rate.num * sum
            /\ outlink.time_base.num * inlink.time_base.den * sum
                 = outlink.time_base.den * inlink.time_base.num * den

(* C5 amended: the output frame rate is the input frame rate divided by m  *)
(* and the output time base is the input time base times m, exactly.       *)
C5_RateDividedByM ==
    (pc = "ready") =>
        LET sum == DigitSum(s.pattern)
            den == 2 * Len(s.pattern)
        IN  /\ s.pts = Q(sum, den)
            /\ outlink.frame_rate.num * inlink.frame_rate.den * sum
                 = outlink.frame_rate.den * inlink.frame_rate.num * den
            /\ outlink.time_base.num * inlink.time_base.den * den
                 = outlink.time_base.den * inlink.time_base.num * sum
            /\ outlink.frame_rate.den > 0 /\ outlink.time_base.den > 0

C5_Witness ==
    /\ pc = "ready" /\ last.op = "config_output"
    /\ s.pattern = DefaultPattern
    /\ inlink.frame_rate = Q(30, 1) /\ outlink.frame_rate = Q(24, 1)
    /\ inlink.time_base = Q(1, 30) /\ outlink.time_base = Q(1, 24)

(* C6: init fails for every start_frame that is at least the number of     *)
(* frames of one pattern cycle, (sum of digits) / 2.                       *)
C6_RejectsStartBeyondCycle ==
    (pc = "inited") => 2 * s.start_frame < DigitSum(s.pattern)

(* C7: init returns an error for a pattern of '0' digits only, whatever    *)
(* start_frame is, so the filter never gets past init with one.            *)
C7_AllZerosRejected ==
    AllZeros(s.pattern) =>
        /\ pc \in {"new", "init_failed"}
        /\ last.op = "init" => last.ret = AVERROR_INVALIDDATA

C7_Witness ==
    /\ AllZeros(s.pattern) /\ Len(s.pattern) = 2 /\ s.start_frame = 0
    /\ pc = "init_failed" /\ last.op = "init" /\ last.ret = AVERROR_INVALIDDATA

(* C8 as stated: with the default options the first output frame is input  *)
(* frame 1 as it came and the second one is made of fields of two          *)
(* different input frames.                                                 *)
C8_SecondFrameInterleaved ==
    (DefaultOptions /\ Len(Fifo) >= 2) =>
        /\ Fifo[1].sent = InputFrame(s, 1)
        /\ Cardinality(Sources(Fifo[2].sent)) = 2

(* C8 amended: with the default options the first pattern cycle takes the  *)
(* input frames 1 and 2 and yields exactly two output frames, each its     *)
(* input frame as it came; the stray field of the 3-field frame is left as *)
(* nskip_fields = 1, the call for input frame 3 emits nothing and puts     *)
(* that frame into temp, and the first frame made of two input frames is   *)
(* the third output (fields of the input frames 4 and 3).                  *)
C8_FirstCycle ==
    DefaultOptions =>
        /\ ninput >= 1 => Len(Fifo) >= 1 /\ Fifo[1].sent = InputFrame(s, 1)
        /\ ninput >= 2 => Len(Fifo) >= 2 /\ Fifo[2].sent = InputFrame(s, 2)
        /\ ninput = 2 => /\ Len(Fifo) = 2
                         /\ s.pattern_pos = 0
                         /\ s.nskip_fields = 1
                         /\ s.occupied = 0
        /\ ninput = 3 => /\ Len(Fifo) = 2
                         /\ last.path = "SkipOne"
                         /\ s.nskip_fields = 0
                         /\ s.occupied = 1
                         /\ bufs["temp"] = InputFrame(s, 3)
        /\ ninput >= 4 => /\ Len(Fifo) >= 3
                          /\ Sources(Fifo[3].sent) = {3, 4}

C8_Witness ==
    DefaultOptions /\ ninput = 4 /\ Len(Fifo) = 3 /\ s.occupied = 1

(* C9: a Consume call entered with temp occupied and len >= 2 emits one    *)
(* frame whose row r, in every plane, is row r of the input frame when     *)
(* r mod 2 = first_field and row r of temp (as it was on entry) otherwise; *)
(* every row of the output slot is written exactly once.                   *)
C9_InterleavedRows ==
    (Called /\ last.path = "Consume" /\ last.entry.occupied # 0 /\ last.len0 >= 2) =>
        /\ last.out = 1
        /\ Len(Fifo) >= 1
        /\ LET pix == Fifo[Len(Fifo)].sent
               in == InputFrame(s, last.in)
           IN  /\ DOMAIN pix = Planes(s)
               /\ \A p \in Planes(s) :
                    /\ DOMAIN pix[p] = Rows(s, p)
                    /\ \A r \in Rows(s, p) :
                         /\ pix[p][r] = IF r % 2 = s.first_field
                                        THEN in[p][r] ELSE last.temp0[p][r]
                         /\ last.rw[p][r] = 1

C9_Witness ==
    /\ Called /\ last.path = "Consume" /\ last.entry.occupied # 0 /\ last.len0 >= 3
    /\ s.first_field = 1
    /\ s.planeheight[0] = 3 /\ s.planeheight[1] = 2
    /\ LET pix == Fifo[Len(Fifo)].sent[0]
       IN  /\ pix[0] = <<last.in - 1, 0>>
           /\ pix[1] = <<last.in, 1>>
           /\ pix[2] = <<last.in - 1, 2>>

(* C10: when a call produces two output frames and handing the first one   *)
(* downstream fails, the second one is still cloned and, unless its clone  *)
(* fails, handed downstream, and the call returns what that last           *)
(* ff_filter_frame returned.                                               *)
C10_LastDeliveryReported ==
    (Called /\ last.out = 2 /\ Len(last.deliv) >= 1 /\ last.deliv[1] < 0) =>
        /\ last.clones = 2
        /\ ~last.nomem => Len(last.deliv) = 2 /\ last.ret = last.deliv[2]

C10_Witness ==
    /\ Called /\ last.out = 2
    /\ last.deliv = <<AVERROR(ENOMEM), 0>>
    /\ last.ret = 0
    /\ Len(Fifo) >= 1 /\ Fifo[Len(Fifo)].buf = "f1"

(* The cursor of the context.                                              *)
Cursor(ctx) == <<ctx.pattern_pos, ctx.nskip_fields, ctx.occupied, ctx.init_len>>

(* The context a Consume call on input frame in, entered with the context  *)
(* entry, leaves when every clone and delivery succeeds.                   *)
AfterSuccess(entry, store, in) ==
    LET t == TakeLen(entry)
    IN  Consume(t.s, store, t.len, InputFrame(entry, in)).s

(* C11: when av_frame_clone fails in a call, the call returns              *)
(* AVERROR(ENOMEM), the frames it handed downstream before stay queued,    *)
(* and pattern_pos, nskip_fields, occupied and init_len are what the same  *)
(* call leaves when nothing fails.                                         *)
C11_ConsistentAfterNoMem ==
    (Called /\ last.nomem) =>
        /\ last.ret = AVERROR(ENOMEM)
        /\ last.clones = Len(last.deliv) + 1
        /\ Cursor(s) = Cursor(AfterSuccess(last.entry, bufs, last.in))
        /\ \A k \in DOMAIN last.deliv :
             last.deliv[k] = 0 =>
                \E i \in DOMAIN Fifo :
                    Fifo[i].props = last.in /\ Fifo[i].buf = SlotBuf(k - 1)

C11_Witness ==
    /\ Called /\ last.nomem /\ last.out = 2 /\ last.deliv = <<0>>
    /\ Fifo[Len(Fifo)].props = last.in
    /\ s.occupied = 1

(* C12: a failed init leaves every field of the context as it was before   *)
(* the call (the context of the model before init is the zeroed context    *)
(* with the options set).                                                  *)
C12_NoPartialState ==
    (last.op = "init" /\ last.ret < 0) =>
        s = Context(s.pattern, s.start_frame, s.first_field)

(* C13: start_time is the timestamp of the first input frame from the      *)
(* first call on, also when that frame carries AV_NOPTS_VALUE: no later    *)
(* call changes it.                                                        *)
C13_StartTimeFixedByFirstFrame ==
    (ninput >= 1) => s.start_time = first_pts

(* C14: with a pattern that has a non-zero digit, a call that finds        *)
(* nskip_fields = 0 emits at least one frame: the path that drops the      *)
(* input and emits nothing is not taken.                                   *)
C14_ZeroLengthOnlyForZeroPattern ==
    (Called /\ last.entry.nskip_fields = 0 /\ ~AllZeros(s.pattern)) =>
        (last.path # "ZeroLen" /\ last.out >= 1)

(* The sum of the first k digits of a pattern.                             *)
RECURSIVE PrefixSum(_, _)
PrefixSum(str, k) == IF k = 0 THEN 0 ELSE PrefixSum(str, k - 1) + (str[k] - Zero)

(* C15: for a digit pattern and 0 < 2*start_frame <= sum of digits, init   *)
(* succeeds and leaves pattern_pos = the smallest k whose prefix sum is    *)
(* >= 2*start_frame, init_len = that prefix sum - 2*start_frame and        *)
(* nskip_fields = 0; with start_frame = 0 it leaves pattern_pos = 0 and    *)
(* init_len = 0. From the first filter_frame call on init_len is 0.        *)
C15_InitCursor ==
    LET str == s.pattern
        sf  == s.start_frame
        k   == s.pattern_pos
    IN  /\ (pc # "new" /\ ninput = 0 /\ AllDigits(str)) =>
              /\ (0 < 2 * sf /\ 2 * sf <= DigitSum(str)) =>
                    /\ pc # "init_failed"
                    /\ k \in 1..Len(str)
                    /\ PrefixSum(str, k) >= 2 * sf
                    /\ \A j \in 0..(k - 1) : PrefixSum(str, j) < 2 * sf
                    /\ s.init_len = PrefixSum(str, k) - 2 * sf
                    /\ s.init_len >= 0
                    /\ s.nskip_fields = 0
              /\ sf = 0 => (s.pattern_pos = 0 /\ s.init_len = 0)
        /\ ninput >= 1 => s.init_len = 0

C15_Witness ==
    /\ Called /\ ninput = 1
    /\ s.pattern = <<Zero + 1, Zero + 3>> /\ s.start_frame = 1
    /\ last.entry.pattern_pos = 2 /\ last.entry.init_len = 2
    /\ s.init_len = 0

(* C16: a filter_frame call entered with nskip_fields >= 1 emits nothing   *)
(* and leaves pattern_pos and init_len as they were; with nskip_fields >=  *)
(* 2 it only subtracts 2 from nskip_fields (occupied and every buffer      *)
(* unchanged); with nskip_fields = 1 it makes temp the whole input frame,  *)
(* sets occupied to 1 and nskip_fields to 0.                               *)
C16_SkipCalls ==
    [][(pc = "ready" /\ ninput' = ninput + 1 /\ s.nskip_fields >= 1) =>
         /\ outlink' = outlink
         /\ last'.out = 0 /\ last'.ret = 0
         /\ s'.pattern_pos = s.pattern_pos
         /\ s'.init_len = s.init_len
         /\ s.nskip_fields >= 2 =>
               /\ s' = [s EXCEPT !.nskip_fields = @ - 2,
                                 !.start_time = s'.start_time]
               /\ bufs' = bufs
         /\ s.nskip_fields = 1 =>
               /\ bufs' = [bufs EXCEPT !["temp"] = InputFrame(s, ninput')]
               /\ s' = [s EXCEPT !.occupied = 1, !.nskip_fields = 0,
                                 !.start_time = s'.start_time]
      ]_vars

C16_Witness ==
    /\ Called /\ last.path = "SkipOne"
    /\ last.entry.nskip_fields = 1 /\ last.entry.occupied = 0
    /\ last.temp0 # InputFrame(s, last.in)
    /\ bufs["temp"] = InputFrame(s, last.in)
    /\ s.occupied = 1 /\ s.nskip_fields = 0

(* C17: pattern_pos never passes the terminator of the pattern: it is at   *)
(* most the length of the pattern after init (also when 2*start_frame      *)
(* exceeds the sum of the digits) and below the length after every         *)
(* filter_frame call that reaches the Consume path.                        *)
C17_CursorInsidePattern ==
    /\ pc \notin {"new", "init_failed"} =>
          s.pattern_pos \in 0..Len(s.pattern)
    /\ (Called /\ last.path = "Consume") =>
          s.pattern_pos \in 0..(Len(s.pattern) - 1)

C17_Witness ==
    /\ Called /\ last.path = "Consume"
    /\ 2 * s.start_frame > DigitSum(s.pattern)
    /\ last.entry.pattern_pos = Len(s.pattern) - 1
    /\ s.pattern_pos = 0

(* C18: the adjustment 'if (len == 1 && s->occupied)' after the two        *)
(* branches is never taken, and between calls occupied = 1 implies         *)
(* nskip_fields = 0.                                                       *)
C18_NoPostAdjustment ==
    /\ Called => "absorb" \notin last.steps
    /\ pc \notin {"new", "init_failed"} =>
          (s.occupied = 1 => s.nskip_fields = 0)

C18_Witness ==
    /\ Called /\ last.path = "Consume"
    /\ last.entry.occupied = 1 /\ last.len0 = 4
    /\ "weave" \in last.steps
    /\ s.occupied = 0 /\ s.nskip_fields = 1

(* What stands between a state and the next call that emits: the fields    *)
(* still to skip, and one call more when the search for len would end at   *)
(* the terminator with nothing found.                                      *)
Stall(ctx) ==
    2 * ctx.nskip_fields
      + (IF SeekLen(ctx.pattern, ctx.pattern_pos, ctx.init_len).len = 0
         THEN 1 ELSE 0)

(* C19: the engine never stalls: every filter_frame call that sends no     *)
(* frame downstream (cloning and delivery succeeding) lowers Stall, a      *)
(* natural number, and from every state that has Stall + 1 input frames    *)
(* to come a later call emits.                                             *)
C19_NeverStalls ==
    /\ [][(pc = "ready" /\ ninput' = ninput + 1
             /\ Len(outlink'.fifo) = Len(outlink.fifo)) =>
            /\ Stall(s') < Stall(s)
            /\ Stall(s') >= 0
         ]_vars
    /\ \A n \in 0..MaxCalls :
         (pc = "ready" /\ ninput = n /\ n + Stall(s) < CallLimit(s))
            ~> (ninput > n /\ Called /\ Len(last.deliv) >= 1)

C19_Witness ==
    /\ Called /\ last.path = "ZeroLen" /\ ninput >= 3
    /\ last.entry.pattern_pos > 0
    /\ Stall(last.entry) = 1
    /\ Stall(s) = 0

(* C20: with the default pattern "23" and start_frame 0 the engine has a   *)
(* period of five input frames: after every 5k-th call pattern_pos,        *)
(* nskip_fields and occupied are 0 again and 4k frames have been emitted,  *)
(* the ratio 4/5 of the output frame rate to the input frame rate.         *)
C20_PeriodFive ==
    (DefaultOptions /\ s.start_frame = 0 /\ pc = "ready" /\ ninput % 5 = 0) =>
        /\ s.pattern_pos = 0 /\ s.nskip_fields = 0 /\ s.occupied = 0
        /\ Len(Fifo) = 4 * (ninput \div 5)
        /\ outlink.frame_count_in = 4 * (ninput \div 5)
        /\ 5 * outlink.frame_rate.num * inlink.frame_rate.den
              = 4 * inlink.frame_rate.num * outlink.frame_rate.den

C20_Witness ==
    /\ DefaultOptions /\ pc = "ready" /\ ninput = 10
    /\ Cursor(s) = <<0, 0, 0, 0>>
    /\ Len(Fifo) = 8

====
